---- MODULE Spec2Model ----
(***************************************************************************)
(* Model of the Santa Tracker build pipeline (gulpfile.js: the gulp 3 task *)
(* graph, its streams and the files they write) and of the app.Lights      *)
(* scene class.                                                            *)
(*                                                                         *)
(* Strings that the code takes apart are sequences of symbols ("/" is a    *)
(* symbol of its own, every other symbol is a slash-free chunk); a path is *)
(* the sequence of its components, the last one being the extension.       *)
(***************************************************************************)
EXTENDS Integers, Sequences, FiniteSets, TLC

VARIABLES
  argv,        \* the parsed command line (yargs), fixed at process start
  tstate,      \* orchestrator: task name -> "idle" | "running" | "done" | "err"
  started,     \* the tasks whose function has been entered in this invocation
  seq,         \* orchestrator: the current run list (this.seq)
  isRunning,   \* orchestrator: this.isRunning
  runSeq,      \* run-sequence inside 'dist': 0 = not in use, k = k-th task set running
  crashed,     \* an unhandled 'error' event ended the process
  queue,       \* open streams: writer -> the file operations it still has to do
  fs,          \* the file system: path -> content
  snap,        \* what build-contents has read: relative path -> hash
  manifest,    \* the entries of the manifest file written: relative path -> hash
  vulcanizeCalls,  \* document -> the stripExcludes option $.vulcanize got for it
  errored,     \* the streams that have emitted 'error'
  tiles,       \* app.Lights: this.tiles
  lights,      \* app.Lights: the tile number shown by each light (0: no image yet)
  active,      \* app.Lights: this.active
  level,       \* the stage of the most recent setLevel call ("none": no call yet)
  beats        \* number of onBeat calls so far

buildVars == <<argv, tstate, started, seq, isRunning, runSeq, crashed, queue, fs,
               snap, manifest, vulcanizeCalls, errored>>
lightVars == <<tiles, lights, active, level, beats>>
vars == <<argv, tstate, started, seq, isRunning, runSeq, crashed, queue, fs,
          snap, manifest, vulcanizeCalls, errored, tiles, lights, active, level, beats>>

(***************************************************************************)
(* Bounds of the model.                                                    *)
(***************************************************************************)
MaxFailures == 1
MaxBeats == 3
MaxSeed == 12
MaxUrlLen == 3

(***************************************************************************)
(* Helpers on sequences and functions.                                     *)
(***************************************************************************)
Range(s) == { s[i] : i \in DOMAIN s }

IsPrefix(a, b) == Len(a) <= Len(b) /\ SubSeq(b, 1, Len(a)) = a

Last(s) == s[Len(s)]

RECURSIVE SetToSeq(_)
SetToSeq(S) ==
  IF S = {} THEN <<>> ELSE LET x == CHOOSE y \in S : TRUE IN <<x>> \o SetToSeq(S \ {x})

RECURSIVE SeqsUpTo(_, _)
SeqsUpTo(S, n) ==
  IF n = 0 THEN {<<>>}
  ELSE LET shorter == SeqsUpTo(S, n - 1)
       IN shorter \cup { Append(q, x) : q \in shorter, x \in S }

Restrict(f, S) == [x \in S |-> f[x]]

(***************************************************************************)
(* The command line and the constants derived from it.                     *)
(***************************************************************************)
\* 'v' + the digits of the current time, to the minute
DEFAULT_STATIC_VERSION == "v202611042237"

BuildTags == {DEFAULT_STATIC_VERSION, "v202312251200"}

\* --baseurl values: strings over the symbols "/" and "santa"
BaseUrls == SeqsUpTo({"/", "santa"}, MaxUrlLen)

\* s[k+1 ..] consists of slashes only
AllSlashesFrom(s, k) == \A n \in (k + 1) .. Len(s) : s[n] = "/"

\* The leftmost match of /\/*$/ in s starts after position k.
TrailingSlashMatch(s) ==
  CHOOSE k \in 0 .. Len(s) :
    AllSlashesFrom(s, k) /\ \A m \in 0 .. (k - 1) : ~AllSlashesFrom(s, m)

\* The same replace with the g flag: the empty match at the end of the
\* string is replaced too whenever the first match is not empty.
ReplaceTrailingSlashesGlobal(s) ==
  LET k == TrailingSlashMatch(s)
  IN SubSeq(s, 1, k) \o (IF k < Len(s) THEN <<"/", "/">> ELSE <<"/">>)

\* s.replace(/\/*$/, '/')
ReplaceTrailingSlashes(s) == SubSeq(s, 1, TrailingSlashMatch(s)) \o <<"/">>

STATIC_BASE_URL == ReplaceTrailingSlashes(argv.baseurl)

STATIC_URL == IF argv.pretty THEN <<>> ELSE STATIC_BASE_URL \o <<argv.build, "/">>

STATIC_VERSION == argv.build

PROD_DIR == <<"dist_prod">>
STATIC_DIR == <<"dist_static">>
PRETTY_DIR == <<"dist_pretty">>

DIST_PROD_DIR == IF argv.pretty THEN PRETTY_DIR ELSE PROD_DIR

DIST_STATIC_DIR == IF argv.pretty THEN PRETTY_DIR ELSE STATIC_DIR \o <<argv.build>>

\* The scene configuration table (./scenes): s1 is a plain scene, s2 a framed
\* scene that depends on s1.
SCENE_CLOSURE_CONFIG ==
  [s \in {"s1", "s2"} |->
     IF s = "s1" THEN [isFrame |-> FALSE, dependencies |-> <<>>]
                 ELSE [isFrame |-> TRUE, dependencies |-> <<"s1">>]]

\* --scene values: "" is the default (null), "nosuch" is in no table
SceneArgs == {"", "s1", "s2", "nosuch"}

\* (SCENE_CLOSURE_CONFIG[argv.scene] || {}).dependencies || []
DependenciesOf(s) ==
  IF s \in DOMAIN SCENE_CLOSURE_CONFIG THEN SCENE_CLOSURE_CONFIG[s].dependencies ELSE <<>>

SCENE_NAMES ==
  IF argv.scene # "" THEN <<argv.scene>> \o DependenciesOf(argv.scene)
  ELSE SetToSeq(DOMAIN SCENE_CLOSURE_CONFIG)

(***************************************************************************)
(* File contents: a sequence of tokens [k |-> kind, v |-> value].          *)
(***************************************************************************)
Tok(k, v) == [k |-> k, v |-> v]

\* index.html: text, <base href="">, a window.DEV = true line,
\* data-version="", an i18n message, and a <base> whose href is set already
IndexHtml == << Tok("text", <<"head">>), Tok("base", <<>>), Tok("dev", <<>>),
                Tok("dataversion", <<>>), Tok("msg", <<"title">>),
                Tok("base", <<"/", "other", "/">>) >>

\* sw.js: './STATIC_PATH/' and const version = '';
SwJs == << Tok("staticpath", <<>>), Tok("version", <<>>), Tok("text", <<"sw">>) >>

\* elements/elements_en.html: two imports and a line without href
ElementsHtml == << Tok("href", <<"..", "components", "polymer", "polymer.html">>),
                   Tok("text", <<"dom-module">>),
                   Tok("href", <<"chrome", "chrome.html">>) >>

SceneHtml(s) == << Tok("href", <<"..", "..", "elements", "elements_en.html">>),
                   Tok("msg", <<s>>) >>

Blob(name) == << Tok("text", <<name>>) >>

\* The checkout: the files of the source tree the tasks read.
SourceTree ==
  (<<"index", "html">> :> IndexHtml) @@
  (<<"sw", "js">> :> SwJs) @@
  (<<"manifest", "json">> :> << Tok("msg", <<"name">>) >>) @@
  (<<"images", "og", "png">> :> Blob("og")) @@
  (<<"audio", "jingle", "mp3">> :> Blob("jingle")) @@
  (<<"sass", "main", "scss">> :> Blob("main")) @@
  (<<"elements", "elements_en", "html">> :> ElementsHtml) @@
  (<<"scenes", "s1", "s1-scene_en", "html">> :> SceneHtml("s1")) @@
  (<<"scenes", "s2", "s2-scene_en", "html">> :> SceneHtml("s2")) @@
  (<<"scenes", "postcardly", "snowflake-maker", "turtle", "html">> :> SceneHtml("turtle")) @@
  (<<"scenes", "s1", "js", "main", "js">> :> Blob("s1")) @@
  (<<"scenes", "s2", "js", "main", "js">> :> Blob("s2")) @@
  (<<"scenes", "shared", "js", "shared", "js">> :> Blob("shared")) @@
  (<<"js", "service", "service", "js">> :> Blob("service"))

\* What an earlier build left in the output directories.
ManifestName == <<"contents", "json">>

Leftovers ==
  (DIST_STATIC_DIR \o ManifestName :> << Tok("manifest", <<"old">>) >>) @@
  (DIST_PROD_DIR \o <<"index", "html">> :> Blob("old"))

\* The states of the working directory a build may start from: a fresh
\* checkout, one with the output of an earlier build, and one in which an
\* asset (audio/jingle.mp3) is missing.
JingleMp3 == <<"audio", "jingle", "mp3">>

Checkouts ==
  { SourceTree, Leftovers @@ SourceTree,
    [p \in DOMAIN SourceTree \ {JingleMp3} |-> SourceTree[p]] }

Under(dir, f) == { p \in DOMAIN f : IsPrefix(dir, p) /\ Len(p) > Len(dir) }

(***************************************************************************)
(* Content transformations of the streams.                                 *)
(***************************************************************************)
\* The positions of the tokens a search for kind k with an empty value hits.
Hits(doc, k) == { i \in DOMAIN doc : doc[i].k = k /\ doc[i].v = <<>> }

\* $.replace(string, value): every occurrence (split and join)
ReplaceAll(doc, k, value) ==
  [i \in DOMAIN doc |-> IF i \in Hits(doc, k) THEN Tok(k, value) ELSE doc[i]]

\* $.replace(/regexp/, value) without the g flag: the first occurrence
ReplaceFirst(doc, k, newTok) ==
  IF Hits(doc, k) = {} THEN doc
  ELSE LET i == CHOOSE j \in Hits(doc, k) : \A h \in Hits(doc, k) : j <= h
       IN [doc EXCEPT ![i] = newTok]

\* i18n_replace (gulp_scripts/i18n_replace.js): messages become text
I18nReplace(doc) ==
  [i \in DOMAIN doc |-> IF doc[i].k = "msg" THEN Tok("text", doc[i].v) ELSE doc[i]]

\* build-prod, htmlStream: the pipes between gulp.src and gulp.dest
StampHtml(doc) ==
  LET d1 == IF argv.pretty THEN doc ELSE ReplaceFirst(doc, "dev", Tok("text", <<>>))
      d2 == ReplaceAll(d1, "base", STATIC_URL)
      d3 == ReplaceAll(d2, "dataversion", <<STATIC_VERSION>>)
  IN I18nReplace(d3)

\* build-prod, jsStream
StampJs(doc) ==
  ReplaceFirst(ReplaceAll(doc, "staticpath", STATIC_URL),
               "version", Tok("version", <<STATIC_VERSION>>))

\* path.join(dir, raw): ".." takes back the component before it
RECURSIVE Normalize(_, _)
Normalize(done, rest) ==
  IF rest = <<>> THEN done
  ELSE IF Head(rest) = ".." /\ done # <<>> /\ Last(done) # ".."
         THEN Normalize(SubSeq(done, 1, Len(done) - 1), Tail(rest))
         ELSE Normalize(Append(done, Head(rest)), Tail(rest))

PathJoin(dir, raw) == Normalize(<<>>, dir \o raw)

\* vulcanize-scenes: every href="..." of elements/elements_en.html, joined
\* to the directory of that file, in the order of the file
RECURSIVE HrefsOf(_)
HrefsOf(doc) ==
  IF doc = <<>> THEN <<>>
  ELSE (IF Head(doc).k = "href" THEN << PathJoin(<<"elements">>, Head(doc).v) >> ELSE <<>>)
       \o HrefsOf(Tail(doc))

elementsImports == HrefsOf(fs[<<"elements", "elements_en", "html">>])

\* path.dirname of a file path (its name and extension are two components)
Dirname(p) == SubSeq(p, 1, Len(p) - 2)

\* stripExcludes with the two branches exchanged
StripExcludesSwapped(sceneName) ==
  IF sceneName \in DOMAIN SCENE_CLOSURE_CONFIG /\ SCENE_CLOSURE_CONFIG[sceneName].isFrame
    THEN elementsImports ELSE <<>>

\* closureConfig = SCENE_CLOSURE_CONFIG[sceneName] || {};
\* stripExcludes: closureConfig.isFrame ? [] : elementsImports
StripExcludes(sceneName) ==
  IF sceneName \in DOMAIN SCENE_CLOSURE_CONFIG /\ SCENE_CLOSURE_CONFIG[sceneName].isFrame
    THEN <<>> ELSE elementsImports

\* file_manifest (gulp_scripts/file_manifest.js): the hash of a content
RECURSIVE HashFrom(_, _)
HashFrom(h, doc) ==
  IF doc = <<>> THEN h
  ELSE HashFrom((h * 31 + Len(Head(doc).k) * 7 + Len(Head(doc).v) + 1) % 251, Tail(doc))

Hash(doc) == HashFrom(17, doc)

(***************************************************************************)
(* Globs of the tasks, as predicates on paths.                             *)
(***************************************************************************)
\* '{scenes,sass,elements}/**/*.scss'
IsSassFile(p) == Len(p) >= 3 /\ p[1] \in {"scenes", "sass", "elements"} /\ Last(p) = "scss"

\* ['js/service/*.js', '!**/*.min.js']
IsServiceFile(p) == Len(p) = 4 /\ p[1] = "js" /\ p[2] = "service" /\ p[4] = "js"

\* [`scenes/${sceneName}/js/**/*.js`, 'scenes/shared/js/*.js']
IsSceneSource(p, sceneName) ==
  \/ Len(p) >= 5 /\ p[1] = "scenes" /\ p[2] = sceneName /\ p[3] = "js" /\ Last(p) = "js"
  \/ Len(p) = 5 /\ p[1] = "scenes" /\ p[2] = "shared" /\ p[3] = "js" /\ p[5] = "js"

\* ['scenes/*/*-scene*.html', 'scenes/postcardly/snowflake-maker/turtle.html']
IsSceneDocument(p) ==
  \/ Len(p) = 4 /\ p[1] = "scenes" /\ p[4] = "html" /\ p[3] = p[2] \o "-scene_en"
  \/ p = <<"scenes", "postcardly", "snowflake-maker", "turtle", "html">>

\* copy-assets, staticStream: the patterns that match files of the checkout
\* ('audio/*', 'images/*.{png,svg,jpg,gif,ico}', 'sass/*.css')
IsStaticAsset(p) ==
  \/ Len(p) = 3 /\ p[1] = "audio"
  \/ Len(p) = 3 /\ p[1] = "images" /\ p[3] \in {"png", "svg", "jpg", "gif", "ico"}
  \/ Len(p) = 3 /\ p[1] = "sass" /\ p[3] = "css"

\* copy-assets, prodStream: 'images/og.png'
IsProdAsset(p) == p = <<"images", "og", "png">>

\* build-contents with the glob on the production directory
ManifestRootWrong == DIST_PROD_DIR

\* build-contents: gulp.src([`${DIST_STATIC_DIR}/**/*`])
ManifestRoot == DIST_STATIC_DIR

(***************************************************************************)
(* The task graph.                                                         *)
(***************************************************************************)
Tasks == {"rm-dist", "sass", "compile-santa-api-service", "compile-scenes",
          "vulcanize-scenes", "vulcanize-elements", "vulcanize", "build-prod",
          "build-prod-manifest", "copy-assets", "build-contents", "dist", "default"}

\* The commands of the model (devmode off).
Commands == {"dist", "default", "build-contents"}

\* The task graph with build-contents declared without its prerequisite.
DepsNoCopyAssets(t) ==
  CASE t = "vulcanize-scenes" -> <<"sass", "compile-scenes">>
    [] t = "vulcanize-elements" -> <<"sass", "compile-santa-api-service">>
    [] t = "vulcanize" -> <<"vulcanize-scenes", "vulcanize-elements">>
    [] t = "copy-assets" -> <<"vulcanize", "build-prod", "build-prod-manifest">>
    [] t = "default" -> <<"sass", "compile-santa-api-service", "compile-scenes">>
    [] OTHER -> <<>>

\* The task graph with vulcanize-scenes declared without 'sass'.
DepsNoSass(t) ==
  CASE t = "vulcanize-scenes" -> <<"compile-scenes">>
    [] t = "vulcanize-elements" -> <<"sass", "compile-santa-api-service">>
    [] t = "vulcanize" -> <<"vulcanize-scenes", "vulcanize-elements">>
    [] t = "copy-assets" -> <<"vulcanize", "build-prod", "build-prod-manifest">>
    [] t = "build-contents" -> <<"copy-assets">>
    [] t = "default" -> <<"sass", "compile-santa-api-service", "compile-scenes">>
    [] OTHER -> <<>>

\* The second argument of each gulp.task(name, [deps], fn).
Deps(t) ==
  CASE t = "vulcanize-scenes" -> <<"sass", "compile-scenes">>
    [] t = "vulcanize-elements" -> <<"sass", "compile-santa-api-service">>
    [] t = "vulcanize" -> <<"vulcanize-scenes", "vulcanize-elements">>
    [] t = "copy-assets" -> <<"vulcanize", "build-prod", "build-prod-manifest">>
    [] t = "build-contents" -> <<"copy-assets">>
    [] t = "default" -> <<"sass", "compile-santa-api-service", "compile-scenes">>
    [] OTHER -> <<>>

\* require('run-sequence')('rm-dist', 'copy-assets', 'build-contents', callback)
DistSequence == <<"rm-dist", "copy-assets", "build-contents">>

\* The run list of the orchestrator: every task after its prerequisites,
\* in the order of the names given.
RECURSIVE Sequencify(_, _)
Sequencify(names, results) ==
  IF names = <<>> THEN results
  ELSE IF Head(names) \in Range(results)
         THEN Sequencify(Tail(names), results)
         ELSE Sequencify(Tail(names),
                         Append(Sequencify(Deps(Head(names)), results), Head(names)))

\* The tasks named and all their prerequisites.
RECURSIVE WithDeps(_)
WithDeps(names) ==
  IF names = <<>> THEN {}
  ELSE {Head(names)} \cup WithDeps(Deps(Head(names))) \cup WithDeps(Tail(names))

(***************************************************************************)
(* The streams a task function builds: writer -> file operations.          *)
(***************************************************************************)
Op(kind, src, dst) == [kind |-> kind, src |-> src, dst |-> dst]

Writer(t, id) == [task |-> t, id |-> id]

NoStreams == [w \in {} |-> <<>>]

Stream(t, id, ops) == IF ops = <<>> THEN NoStreams ELSE Writer(t, id) :> ops

CopyOps(files, dir) == [i \in DOMAIN files |-> Op("copy", files[i], dir \o files[i])]

Matching(f, globs) ==
  SetToSeq({ p \in DOMAIN f :
               CASE globs = "SASS_FILES" -> IsSassFile(p)
                 [] globs = "static" -> IsStaticAsset(p)
                 [] globs = "prod" -> IsProdAsset(p) })

\* `${dest}/${fileName}` of compile-scenes
SceneMinJs(sceneName) == <<"scenes", sceneName, sceneName \o "-scene", "min.js">>

ServiceMinJs == <<"js", "service", "service", "min.js">>

CssOf(p) == SubSeq(p, 1, Len(p) - 1) \o <<"css">>

JsOf(p) == SubSeq(p, 1, Len(p) - 1) \o <<"js">>

\* compile-scenes: the reduce over SCENE_NAMES throws at the first name
\* without configuration (config.typeSafe of undefined); the pipelines of
\* the names before it are built already.
Configured(names) ==
  LET bad == { i \in DOMAIN names : names[i] \notin DOMAIN SCENE_CLOSURE_CONFIG }
  IN IF bad = {} THEN names
     ELSE SubSeq(names, 1, (CHOOSE i \in bad : \A j \in bad : i <= j) - 1)

CompileScenesThrows == Configured(SCENE_NAMES) # SCENE_NAMES

SceneStreams ==
  [w \in { Writer("compile-scenes", n) : n \in Range(Configured(SCENE_NAMES)) } |->
     << Op("compile", <<"scenes", w.id>>, SceneMinJs(w.id)) >>]

\* vulcanize-scenes: one stream per document ($.foreach)
DocumentStreams(f) ==
  [w \in { Writer("vulcanize-scenes", p[Len(p) - 1]) :
             p \in { q \in DOMAIN f : IsSceneDocument(q) } } |->
     LET p == CHOOSE q \in DOMAIN f : IsSceneDocument(q) /\ q[Len(q) - 1] = w.id
     IN << Op("vulcanize", p, DIST_STATIC_DIR \o p),
           Op("crisper", p, DIST_STATIC_DIR \o JsOf(p)) >>]

ElementsDoc == <<"elements", "elements_en", "html">>

Streams(t, f) ==
  CASE t = "rm-dist" -> Stream(t, "del", << Op("del", <<>>, <<>>) >>)
    [] t = "sass" ->
         LET files == Matching(f, "SASS_FILES")
         IN Stream(t, "css", [i \in DOMAIN files |-> Op("sass", files[i], CssOf(files[i]))])
    [] t = "compile-santa-api-service" ->
         Stream(t, "service",
                IF \E p \in DOMAIN f : IsServiceFile(p)
                  THEN << Op("compile", <<"js", "service">>, ServiceMinJs) >> ELSE <<>>)
    [] t = "compile-scenes" -> SceneStreams
    [] t = "vulcanize-scenes" -> DocumentStreams(f)
    [] t = "vulcanize-elements" ->
         Stream(t, "elements",
                IF ElementsDoc \in DOMAIN f
                  THEN << Op("vulcanize-elements", ElementsDoc, DIST_STATIC_DIR \o ElementsDoc),
                          Op("crisper", ElementsDoc, DIST_STATIC_DIR \o JsOf(ElementsDoc)) >>
                  ELSE <<>>)
    [] t = "build-prod" ->
         Stream(t, "html",
                IF <<"index", "html">> \in DOMAIN f
                  THEN << Op("stamp-html", <<"index", "html">>,
                             DIST_PROD_DIR \o <<"index", "html">>) >> ELSE <<>>)
         @@ Stream(t, "js",
                IF <<"sw", "js">> \in DOMAIN f
                  THEN << Op("stamp-js", <<"sw", "js">>, DIST_PROD_DIR \o <<"sw", "js">>) >>
                  ELSE <<>>)
    [] t = "build-prod-manifest" ->
         Stream(t, "manifest",
                IF <<"manifest", "json">> \in DOMAIN f
                  THEN << Op("i18n-manifest", <<"manifest", "json">>,
                             DIST_PROD_DIR \o <<"manifest", "json">>) >> ELSE <<>>)
    [] t = "copy-assets" ->
         Stream(t, "static", CopyOps(Matching(f, "static"), DIST_STATIC_DIR))
         @@ Stream(t, "prod", CopyOps(Matching(f, "prod"), DIST_PROD_DIR))
    [] t = "build-contents" ->
         Stream(t, "contents",
                << Op("read", <<>>, <<>>),
                   Op("emit", <<>>, DIST_STATIC_DIR \o ManifestName) >>)
    [] OTHER -> NoStreams

\* The paths a stream writes.
Dests(ops) == { ops[i].dst : i \in DOMAIN ops } \ {<<>>}

(***************************************************************************)
(* The orchestrator (gulp 3) and run-sequence.                             *)
(***************************************************************************)
Ready(st, t) == \A d \in Range(Deps(t)) : st.tstate[d] = "done"

\* orchestrator.stop(err): nothing more is started; a failed run-sequence
\* hands the error to the callback of 'dist'
Stop(st) ==
  [st EXCEPT !.isRunning = FALSE,
             !.runSeq = 0,
             !.tstate = IF st.runSeq > 0 THEN [st.tstate EXCEPT !["dist"] = "err"]
                        ELSE st.tstate]

RECURSIVE OStart(_, _, _)
RECURSIVE RunFrom(_, _, _)
RECURSIVE OnTaskStop(_, _, _)

\* Entering the function of task t.
StartTask(st, t, f) ==
  LET s1 == [st EXCEPT !.started = @ \cup {t}]
  IN IF t = "dist"
       THEN OStart([s1 EXCEPT !.tstate[t] = "running", !.runSeq = 1],
                   << DistSequence[1] >>, f)
     ELSE IF t = "compile-scenes" /\ CompileScenesThrows
       THEN Stop([s1 EXCEPT !.tstate[t] = "err", !.queue = SceneStreams @@ @])
     ELSE LET ws == Streams(t, f)
          IN [s1 EXCEPT !.tstate[t] = IF DOMAIN ws = {} THEN "done" ELSE "running",
                        !.queue = ws @@ @]

\* _runStep: start, in the order of the run list, every task that is ready.
RunFrom(st, i, f) ==
  IF ~st.isRunning THEN st
  ELSE IF i > Len(st.seq)
    THEN IF \A j \in DOMAIN st.seq : st.tstate[st.seq[j]] = "done"
           THEN [st EXCEPT !.isRunning = FALSE] ELSE st
  ELSE LET t == st.seq[i]
       IN IF st.tstate[t] = "idle" /\ Ready(st, t)
            THEN LET s2 == StartTask(st, t, f)
                 IN IF s2.tstate[t] = "done" THEN OnTaskStop(s2, t, f)
                    ELSE RunFrom(s2, i + 1, f)
            ELSE RunFrom(st, i + 1, f)

\* gulp.start(names): reset, rebuild the run list, run.
OStart(st, names, f) ==
  LET reset == IF st.isRunning THEN WithDeps(names) ELSE Tasks
      listed == IF st.isRunning THEN names \o st.seq ELSE names
  IN RunFrom([st EXCEPT !.tstate = [t \in Tasks |->
                                      IF t \in reset /\ st.tstate[t] = "done"
                                        THEN "idle" ELSE st.tstate[t]],
                        !.seq = Sequencify(listed, <<>>),
                        !.isRunning = TRUE], 1, f)

\* The end of task t: 'task_stop' (run-sequence starts its next task, or
\* calls back 'dist'), then _runStep.
OnTaskStop(st, t, f) ==
  LET s1 == IF st.runSeq > 0 /\ t = DistSequence[st.runSeq]
              THEN IF st.runSeq < Len(DistSequence)
                     THEN OStart([st EXCEPT !.runSeq = @ + 1],
                                 << DistSequence[st.runSeq + 1] >>, f)
                     ELSE OnTaskStop([st EXCEPT !.runSeq = 0, !.tstate["dist"] = "done"],
                                     "dist", f)
              ELSE st
  IN RunFrom(s1, 1, f)

Orchestrator ==
  [tstate |-> tstate, queue |-> queue, started |-> started,
   isRunning |-> isRunning, seq |-> seq, runSeq |-> runSeq]

SetOrchestrator(st) ==
  /\ tstate' = st.tstate
  /\ queue' = st.queue
  /\ started' = st.started
  /\ isRunning' = st.isRunning
  /\ seq' = st.seq
  /\ runSeq' = st.runSeq

(***************************************************************************)
(* The effect of one file operation of a stream.                           *)
(***************************************************************************)
DistPaths(f) == Under(PROD_DIR, f) \cup Under(STATIC_DIR, f) \cup Under(PRETTY_DIR, f)

\* vulcanize-scenes: the pipes after $.vulcanize
SceneDocumentOut(doc) ==
  LET inlined == << Tok("inlined", <<>>) >> \o doc
  IN I18nReplace(IF argv.pretty THEN inlined
                 ELSE ReplaceFirst(inlined, "dev", Tok("text", <<>>)))

Write(f, dst, content) == (dst :> content) @@ f

NewFs(op, f) ==
  CASE op.kind = "del" -> Restrict(f, DOMAIN f \ DistPaths(f))
    [] op.kind = "copy" -> Write(f, op.dst, f[op.src])
    [] op.kind = "sass" ->
         \* $.changed(compareSha1Digest): an unchanged file is not written again
         IF op.dst \in DOMAIN f /\ f[op.dst] = << Tok("css", f[op.src][1].v) >> THEN f
         ELSE Write(f, op.dst, << Tok("css", f[op.src][1].v) >>)
    [] op.kind = "compile" ->
         \* $.newer(dest): nothing to compile when the artifact is there
         IF op.dst \in DOMAIN f THEN f
         ELSE Write(f, op.dst, << Tok("min", << Last(op.src) >>) >>)
    [] op.kind = "vulcanize" -> Write(f, op.dst, SceneDocumentOut(f[op.src]))
    [] op.kind = "vulcanize-elements" ->
         Write(f, op.dst, I18nReplace(<< Tok("inlined", <<>>) >> \o f[op.src]))
    [] op.kind = "crisper" -> Write(f, op.dst, << Tok("script", << op.src[Len(op.src) - 1] >>) >>)
    [] op.kind = "stamp-html" -> Write(f, op.dst, StampHtml(f[op.src]))
    [] op.kind = "stamp-js" -> Write(f, op.dst, StampJs(f[op.src]))
    [] op.kind = "i18n-manifest" -> Write(f, op.dst, I18nReplace(f[op.src]))
    [] op.kind = "emit" -> Write(f, op.dst, << Tok("manifest", << STATIC_VERSION >>) >>)
    [] OTHER -> f

\* build-contents: the files gulp.src reads and file_manifest hashes, keyed
\* by their path relative to the root
ReadTree(f) ==
  [r \in { SubSeq(p, Len(ManifestRoot) + 1, Len(p)) : p \in Under(ManifestRoot, f) } |->
     Hash(f[ManifestRoot \o r])]

NoEntries == [r \in {} |-> 0]

(***************************************************************************)
(* Actions.                                                                *)
(***************************************************************************)
InitArgs(commands, urls, tags, scenes) ==
  /\ argv \in [cmd : commands, pretty : BOOLEAN, build : tags, baseurl : urls,
               scene : scenes]
  /\ fs \in Checkouts
  /\ tstate = [t \in Tasks |-> "idle"]
  /\ started = {}
  /\ seq = <<>>
  /\ isRunning = FALSE
  /\ runSeq = 0
  /\ crashed = FALSE
  /\ queue = NoStreams
  /\ snap = NoEntries
  /\ manifest = NoEntries
  /\ vulcanizeCalls = NoStreams
  /\ errored = {}

\* gulp <command>
Invoke ==
  /\ seq = <<>>
  /\ ~crashed
  /\ SetOrchestrator(OStart(Orchestrator, << argv.cmd >>, fs))
  /\ UNCHANGED <<argv, crashed, fs, snap, manifest, vulcanizeCalls, errored, lightVars>>

\* The stream w has ended: the task ends with its last stream.
CloseStream(st, w, f) ==
  LET s1 == [st EXCEPT !.queue = Restrict(@, DOMAIN @ \ {w})]
  IN IF st.tstate[w.task] = "running" /\ ~\E o \in DOMAIN s1.queue : o.task = w.task
       THEN OnTaskStop([s1 EXCEPT !.tstate[w.task] = "done"], w.task, f)
       ELSE s1

\* A stream does its next file operation; after the last one it ends.
StreamStep(w) ==
  /\ ~crashed
  /\ w \in DOMAIN queue
  /\ LET op == Head(queue[w])
         rest == Tail(queue[w])
     IN /\ fs' = NewFs(op, fs)
        /\ snap' = IF op.kind = "read" THEN ReadTree(fs) ELSE snap
        /\ manifest' = IF op.kind = "emit" THEN snap ELSE manifest
        /\ vulcanizeCalls' =
             IF op.kind = "vulcanize"
               THEN (op.src :> StripExcludes(Last(Dirname(op.src)))) @@ vulcanizeCalls
               ELSE vulcanizeCalls
        /\ IF rest # <<>>
             THEN SetOrchestrator([Orchestrator EXCEPT !.queue[w] = rest])
             ELSE SetOrchestrator(CloseStream(Orchestrator, w, fs'))
  /\ UNCHANGED <<argv, crashed, errored, lightVars>>

\* The streams whose errors the model injects: a compiler error of a scene
\* and an unreadable or unwritable file of the asset copy (sass errors are
\* SassLogError).
FailingTasks == {"compile-scenes", "copy-assets"}

\* A stream emits 'error' and nothing listens: the process dies.
CrashStream(w) ==
  /\ ~crashed
  /\ Cardinality(errored) < MaxFailures
  /\ w \in DOMAIN queue
  /\ w.task \in FailingTasks
  /\ crashed' = TRUE
  /\ errored' = errored \cup {w}
  /\ UNCHANGED <<argv, tstate, started, seq, isRunning, runSeq, queue, fs, snap,
                 manifest, vulcanizeCalls, lightVars>>

\* A stream emits 'error' and the task's stream passes it on: the task
\* fails and the orchestrator stops; the other streams go on.
FailStream(w) ==
  /\ ~crashed
  /\ Cardinality(errored) < MaxFailures
  /\ w \in DOMAIN queue
  /\ w.task \in FailingTasks
  /\ errored' = errored \cup {w}
  /\ SetOrchestrator(
       LET s1 == [Orchestrator EXCEPT !.queue = Restrict(@, DOMAIN @ \ {w})]
       IN IF tstate[w.task] = "running"
            THEN Stop([s1 EXCEPT !.tstate[w.task] = "err"])
            ELSE s1)
  /\ UNCHANGED <<argv, crashed, fs, snap, manifest, vulcanizeCalls, lightVars>>

\* sass: .on('error', $.sass.logError) logs the error and ends the stream.
SassLogError(w) ==
  /\ ~crashed
  /\ Cardinality(errored) < MaxFailures
  /\ w \in DOMAIN queue
  /\ w.task = "sass"
  /\ errored' = errored \cup {w}
  /\ SetOrchestrator(CloseStream(Orchestrator, w, fs))
  /\ UNCHANGED <<argv, crashed, fs, snap, manifest, vulcanizeCalls, lightVars>>

(***************************************************************************)
(* app.Lights                                                              *)
(***************************************************************************)
numberOfTiles == 9
numberOfLights == 4

\* Math.random() is a pseudo-random generator: a draw is r / 32 with r in
\* 0 .. 31, and the draws of one shuffle follow from the generator's state
\* (a full-period linear congruential generator stands for it).
NextRandom(r) == (r * 5 + 3) % 32

RECURSIVE RandomDraws(_, _)
RandomDraws(r, n) == IF n = 0 THEN <<>> ELSE <<r>> \o RandomDraws(NextRandom(r), n - 1)

\* The draws of the iterations i = 1 .. length-1 of one shuffle.
RandomSeqs == { RandomDraws(s % 32, numberOfTiles - 1) : s \in 0 .. (MaxSeed - 1) }

\* Math.floor(Math.random() * (i + 1))
RandomIndex(r, i) == (r * (i + 1)) \div 32

\* A swap that loses a value: array[j] is not written back.
SwapLossy(array, i, j) == [array EXCEPT ![i + 1] = array[j + 1]]

\* var temp = array[i]; array[i] = array[j]; array[j] = temp;  (0-based i, j)
Swap(array, i, j) ==
  [array EXCEPT ![i + 1] = array[j + 1], ![j + 1] = array[i + 1]]

\* for (var i = array.length - 1; i > 0; i--) { j = floor(random * (i+1)); swap }
RECURSIVE ShuffleFrom(_, _, _)
ShuffleFrom(array, i, rnd) ==
  IF i <= 0 THEN array
  ELSE ShuffleFrom(Swap(array, i, RandomIndex(rnd[i], i)), i - 1, rnd)

shuffle_(array, rnd) == ShuffleFrom(array, Len(array) - 1, rnd)

\* level.stage === 'stage2'
IsActiveStage(stage) == stage = "stage2"

Stages == {"stage1", "stage2", "stage3"}

InitLights ==
  /\ tiles = [v \in 1 .. numberOfTiles |-> v]
  /\ lights = [l \in 1 .. numberOfLights |-> 0]
  /\ active = FALSE
  /\ level = "none"
  /\ beats = 0

setLevel ==
  /\ \E stage \in Stages :
       /\ active' = IsActiveStage(stage)
       /\ level' = stage
  /\ UNCHANGED <<tiles, lights, beats, buildVars>>

onBeat ==
  /\ beats < MaxBeats
  /\ beats' = beats + 1
  /\ IF ~active
       THEN UNCHANGED <<tiles, lights>>
       ELSE \E rnd \in RandomSeqs :
              /\ tiles' = shuffle_(tiles, rnd)
              /\ lights' = [l \in 1 .. numberOfLights |-> tiles'[l]]
  /\ UNCHANGED <<active, level, buildVars>>

(***************************************************************************)
(* Specifications.                                                         *)
(***************************************************************************)
Init ==
  /\ InitArgs(Commands, {<<>>}, {DEFAULT_STATIC_VERSION}, SceneArgs)
  /\ InitLights

Next ==
  \/ Invoke
  \/ \E w \in DOMAIN queue : StreamStep(w)
  \/ \E w \in DOMAIN queue : CrashStream(w)
  \/ \E w \in DOMAIN queue : FailStream(w)
  \/ \E w \in DOMAIN queue : SassLogError(w)

Spec == Init /\ [][Next]_vars

\* build-prod alone, over the build tags and base URLs
InitStamp ==
  /\ InitArgs({"build-prod"}, BaseUrls, BuildTags, {""})
  /\ InitLights

NextStamp ==
  \/ Invoke
  \/ \E w \in DOMAIN queue : StreamStep(w)

SpecStamp == InitStamp /\ [][NextStamp]_vars

\* app.Lights alone
InitScene ==
  /\ InitArgs({"default"}, {<<>>}, {DEFAULT_STATIC_VERSION}, {""})
  /\ InitLights

NextScene ==
  \/ setLevel
  \/ onBeat

SpecLights == InitScene /\ [][NextScene]_vars

(***************************************************************************)
(* Properties.                                                             *)
(***************************************************************************)
InStatic(p) == IsPrefix(DIST_STATIC_DIR, p) /\ Len(p) > Len(DIST_STATIC_DIR)

ManifestPath == DIST_STATIC_DIR \o ManifestName

RelStatic(p) == SubSeq(p, Len(DIST_STATIC_DIR) + 1, Len(p))

\* C1: once build-contents has started, vulcanize-scenes, vulcanize-elements,
\* build-prod, build-prod-manifest and copy-assets have all finished, and no
\* stream of another task still has a file to write into the static output
\* directory.
C1_ManifestStageRunsLast ==
  tstate["build-contents"] # "idle" =>
    /\ \A t \in {"vulcanize-scenes", "vulcanize-elements", "build-prod",
                 "build-prod-manifest", "copy-assets"} : tstate[t] = "done"
    /\ \A w \in DOMAIN queue :
         w.task # "build-contents" => \A p \in Dests(queue[w]) : ~InStatic(p)

\* C1 witness: under 'dist', build-contents has read the static directory
\* and has not written the manifest yet.
C1_Witness ==
  /\ argv.cmd = "dist"
  /\ tstate["build-contents"] = "running"
  /\ snap # NoEntries

\* C2: a task has started only if its prerequisites are done: copy-assets
\* after vulcanize-scenes, vulcanize-elements and sass; vulcanize-scenes
\* after sass and compile-scenes; vulcanize-elements after sass and
\* compile-santa-api-service.
C2_PrerequisitesFirst ==
  /\ tstate["copy-assets"] # "idle" =>
       \A d \in {"vulcanize-scenes", "vulcanize-elements", "sass", "vulcanize",
                 "build-prod", "build-prod-manifest"} : tstate[d] = "done"
  /\ tstate["vulcanize-scenes"] # "idle" =>
       \A d \in {"sass", "compile-scenes"} : tstate[d] = "done"
  /\ tstate["vulcanize-elements"] # "idle" =>
       \A d \in {"sass", "compile-santa-api-service"} : tstate[d] = "done"
  /\ tstate["build-contents"] # "idle" => tstate["copy-assets"] = "done"

\* C2 witness: vulcanize-scenes, started after its prerequisites, runs while
\* the unrelated build-prod and vulcanize-elements run.
C2_Witness ==
  /\ tstate["vulcanize-scenes"] = "running"
  /\ tstate["build-prod"] = "running"
  /\ tstate["vulcanize-elements"] = "running"

\* C3 (as claimed): when the scene filter names a scene that is not in the
\* table, or a dependency is not in the table, no stage has started and no
\* file has been written or deleted.
C3_ConfigErrorBeforeAnyStage ==
  CompileScenesThrows =>
    /\ started \ {"dist", "default", "compile-scenes"} = {}
    /\ fs \in Checkouts

C6_NoTwoWritersOnOnePath ==
  \A w1, w2 \in DOMAIN queue :
    w1 # w2 => Dests(queue[w1]) \cap Dests(queue[w2]) = {}

\* C7 (as claimed): when 'dist' is done, every file under the static output
\* directory, the manifest file included, has an entry in the manifest whose
\* hash is the hash of the file's content.
C7_ManifestCoversEveryFile ==
  tstate["dist"] = "done" =>
    \A p \in DOMAIN fs :
      InStatic(p) => /\ RelStatic(p) \in DOMAIN manifest
                     /\ manifest[RelStatic(p)] = Hash(fs[p])

\* C7 (amended): when 'dist' is done, every file under the static output
\* directory other than the manifest file has an entry in the manifest whose
\* hash is the hash of the file's content, the manifest has no other entry,
\* and the manifest file itself has none.
C7_ManifestCoversEveryOtherFile ==
  tstate["dist"] = "done" =>
    /\ ManifestPath \in DOMAIN fs
    /\ DOMAIN manifest = { RelStatic(p) : p \in { q \in DOMAIN fs : InStatic(q) } \ {ManifestPath} }
    /\ \A p \in DOMAIN fs :
         InStatic(p) /\ p # ManifestPath => manifest[RelStatic(p)] = Hash(fs[p])

\* C7 witness: 'dist' is done, in the normal layout, and the static
\* directory holds a vulcanized scene and a copied asset.
C7_Witness ==
  /\ tstate["dist"] = "done"
  /\ ~argv.pretty
  /\ DIST_STATIC_DIR \o <<"images", "og", "png">> \in DOMAIN fs
  /\ DIST_STATIC_DIR \o <<"scenes", "s2", "s2-scene_en", "html">> \in DOMAIN fs

\* The base URL with its trailing slashes taken off one by one.
RECURSIVE WithoutTrailingSlashes(_)
WithoutTrailingSlashes(s) ==
  IF s # <<>> /\ Last(s) = "/" THEN WithoutTrailingSlashes(SubSeq(s, 1, Len(s) - 1))
  ELSE s

ExpectedBaseHref == WithoutTrailingSlashes(argv.baseurl) \o <<"/", argv.build, "/">>

ProdIndex == DIST_PROD_DIR \o <<"index", "html">>

ProdSw == DIST_PROD_DIR \o <<"sw", "js">>

BuildProdDone == tstate["build-prod"] = "done" /\ ProdIndex \in DOMAIN fs /\ ProdSw \in DOMAIN fs

FramedScenes == {"s2"}

ImportsOfElements == << <<"components", "polymer", "polymer.html">>,
                        <<"elements", "chrome", "chrome.html">> >>

\* C9: every document vulcanize-scenes has processed got stripExcludes = []
\* when the scene named by its directory is framed, and the imports of
\* elements/elements_en.html otherwise (also when the directory names no
\* configured scene).
C9_StripExcludesByFrame ==
  \A doc \in DOMAIN vulcanizeCalls :
    vulcanizeCalls[doc] =
      IF doc[Len(doc) - 2] \in FramedScenes THEN <<>> ELSE ImportsOfElements

\* C9 witness: the framed scene, the plain scene and the document in a
\* directory without configuration have all been processed.
C9_Witness ==
  /\ <<"scenes", "s1", "s1-scene_en", "html">> \in DOMAIN vulcanizeCalls
  /\ <<"scenes", "s2", "s2-scene_en", "html">> \in DOMAIN vulcanizeCalls
  /\ <<"scenes", "postcardly", "snowflake-maker", "turtle", "html">> \in DOMAIN vulcanizeCalls

\* C10: tiles is always a permutation of 1..9; once the lights have images
\* they show four different tiles; an onBeat when the last setLevel was not
\* 'stage2' (or there was none) changes neither tiles nor the lights, and an
\* onBeat after setLevel('stage2') shows the first four tiles.
C10_TilesStayAPermutation ==
  /\ [](/\ Len(tiles) = numberOfTiles
        /\ Range(tiles) = 1 .. numberOfTiles
        /\ (lights[1] # 0 =>
              /\ Cardinality(Range(lights)) = numberOfLights
              /\ Range(lights) \subseteq 1 .. numberOfTiles))
  /\ [][beats' = beats + 1 =>
          IF level = "stage2"
            THEN lights' = [l \in 1 .. numberOfLights |-> tiles'[l]]
            ELSE tiles' = tiles /\ lights' = lights]_vars

\* C10 witness: after a beat in stage2 the tiles are shuffled and the
\* lights show images; a later setLevel has left stage2.
C10_Witness ==
  /\ beats = MaxBeats
  /\ level = "stage3"
  /\ lights[1] # 0
  /\ tiles # [v \in 1 .. numberOfTiles |-> v]

====
